---- MODULE Spec2Model ----
(***************************************************************************)
(* Model of the Feishu/Lark webhook bot of src/main.py: the two webhook    *)
(* endpoints (handle_event, handle_card), the payload decryptor            *)
(* (decrypt_lark_data), the message pipeline (handle_message) and the      *)
(* message sender (send_text_message).                                     *)
(*                                                                         *)
(* A request is suspended only at `await request.body()`; everything after *)
(* it is synchronous code on the single event-loop thread, so the steps of *)
(* one request between its body and its response are not interleaved with  *)
(* the steps of another request (guard LoopFree).                          *)
(***************************************************************************)
EXTENDS Integers, Sequences, FiniteSets, TLC

\* ------------------------------------------------------------------ bounds
MaxReq == 2          \* number of webhook requests delivered in one run

\* ------------------------------------------------------- JSON documents
NoVal == "<absent>"      \* a key that is not in the JSON object
NullVal == "<null>"      \* a key whose value is JSON null
Unbound == "<unbound>"   \* a Python local that has not been assigned
NoneVal == "<None>"      \* Python None

RECEIVE == "im.message.receive_v1"
URLVERIFY == "url_verification"
APOLOGY == "Sorry, I encountered an error. Please try again."

\* message.content: the JSON text of {"text": ...}; text is a sequence of
\* characters so that strip() is computed, not assumed
Content(kind, hasText, text) == [kind |-> kind, hasText |-> hasText, text |-> text]
NoContent == Content("absent", FALSE, <<>>)

Msg(kind, mid, mtype, chat, content) ==
    [kind |-> kind, message_id |-> mid, message_type |-> mtype,
     chat_id |-> chat, content |-> content]
NoMsg == Msg("absent", NoVal, NoVal, NoVal, NoContent)
NullMsg == Msg("null", NoVal, NoVal, NoVal, NoContent)

Evt(kind, type, sender, message) ==
    [kind |-> kind, type |-> type, sender |-> sender, message |-> message]
NoEvt == Evt("absent", NoVal, NoVal, NoMsg)
NullEvt == Evt("null", NoVal, NoVal, NoMsg)

Hdr(kind, etype) == [kind |-> kind, event_type |-> etype]
NoHdr == Hdr("absent", NoVal)
NullHdr == Hdr("null", NoVal)

\* a decoded JSON object, by the keys the handlers read
Doc(challenge, type, header, event, action) ==
    [challenge |-> challenge, type |-> type, header |-> header,
     event |-> event, action |-> action]
EmptyDoc == Doc(NoVal, NoVal, NoHdr, NoEvt, NoVal)

\* the value of the "encrypt" key: base64(iv + AES-256-CBC(sha256(key), pkcs7(plaintext)))
\* kind "garbage": not base64 / not a whole number of blocks
\* json = FALSE: the plaintext is not JSON text
Cipher(kind, key, json, plain) == [kind |-> kind, key |-> key, json |-> json, plain |-> plain]
NoCipher == Cipher("absent", "", FALSE, EmptyDoc)
Garbage == Cipher("garbage", "", FALSE, EmptyDoc)
Encrypt(doc, key) == Cipher("ct", key, TRUE, doc)

\* a request body: kind "notjson" (json.loads raises), "scalar" (a JSON number,
\* true, false or null), "obj" (a JSON object)
Body(kind, encrypt, doc) == [kind |-> kind, encrypt |-> encrypt, doc |-> doc]
Plain(doc) == Body("obj", NoCipher, doc)
Encrypted(c) == Body("obj", c, EmptyDoc)

\* -------------------------------------------------- the deliveries tried
TextContent(text) == Content("obj", TRUE, text)
TextMsg(mid, chat, text) == Msg("obj", mid, "text", chat, TextContent(text))
V2(etype, sender, message) == Doc(NoVal, NoVal, Hdr("obj", etype), Evt("obj", NoVal, sender, message), NoVal)
V1(type, sender, message) == Doc(NoVal, "event_callback", NoHdr, Evt("obj", type, sender, message), NoVal)

ChallengeV1 == Doc("c1", NoVal, NoHdr, NoEvt, NoVal)
ChallengeV2 == Doc("c2", URLVERIFY, NoHdr, NoEvt, NoVal)
HelloM1 == V2(RECEIVE, "u1", TextMsg("m1", "oc_A", <<"h">>))
HelloM2 == V2(RECEIVE, "u1", TextMsg("m2", "oc_B", <<" ", "h", " ">>))

MessageDocs ==
    { HelloM1,
      \* message-received events that are not usable text messages
      V2(RECEIVE, "u1", Msg("obj", "m1", "image", "oc_A", NoContent)),
      V2(RECEIVE, "u1", TextMsg("m1", "oc_A", <<" ">>)),
      V2(RECEIVE, "u1", TextMsg("m1", "oc_A", <<>>)),
      V2(RECEIVE, "u1", Msg("obj", "m1", "text", "oc_A", Content("obj", FALSE, <<>>))),
      V2(RECEIVE, "u1", Msg("obj", "m1", "text", "oc_A", Content("notjson", FALSE, <<>>))),
      V2(RECEIVE, NullVal, TextMsg("m1", NoVal, <<"h">>)),
      V2(RECEIVE, "u1", NullMsg),
      \* another event type
      V2("im.chat.member.bot.added_v1", "u1", TextMsg("m1", "oc_A", <<"h">>)),
      \* v1 shape: an event field and no header field
      V1("add_bot", "u1", TextMsg("m1", "oc_A", <<"h">>)),
      V1("message", "u1", NoMsg),
      \* malformed shapes
      Doc(NoVal, NoVal, NullHdr, Evt("obj", NoVal, "u1", TextMsg("m1", "oc_A", <<"h">>)), NoVal),
      Doc(NoVal, NoVal, NoHdr, NullEvt, NoVal) }

CardDocs ==
    { Doc(NoVal, NoVal, NoHdr, NoEvt, "obj"),
      Doc(NoVal, NoVal, NoHdr, NoEvt, NullVal) }

ChallengeDocs ==
    { ChallengeV1, ChallengeV2,
      Doc(NoVal, URLVERIFY, NoHdr, NoEvt, NoVal) }

UndecodableBodies ==
    { Body("notjson", NoCipher, EmptyDoc),
      Body("scalar", NoCipher, EmptyDoc),
      Encrypted(Cipher("ct", "k1", FALSE, EmptyDoc)),
      Encrypted(Encrypt(HelloM1, "k2")) }

EncryptedBodies ==
    { Encrypted(Encrypt(ChallengeV1, "k1")),
      \* the outer object carries a challenge next to the encrypt field
      Body("obj", Encrypt(HelloM2, "k1"), ChallengeV2) }

EventBodies ==
    {Plain(d) : d \in MessageDocs \cup ChallengeDocs \cup {EmptyDoc}}
        \cup UndecodableBodies \cup EncryptedBodies

CardBodies ==
    {Plain(d) : d \in CardDocs \cup {ChallengeV1, ChallengeV2, HelloM1}}
        \cup {Body("notjson", NoCipher, EmptyDoc), Encrypted(Garbage),
              Encrypted(Encrypt(HelloM1, "k1"))}
        \cup EncryptedBodies

Endpoints == {"event", "card"}

\* APP_ENCRYPT_KEY: "" when the variable is unset or empty
EncryptKeys == {"", "k1"}

\* ---------------------------------------------------------- pure helpers
\* a decryptor that swallows its failure and returns an empty object
decrypt_lark_data_swallow(encrypt_str, encrypt_key) ==
    IF encrypt_str.kind = "ct" /\ encrypt_str.key = encrypt_key /\ encrypt_str.json
    THEN [ok |-> TRUE, doc |-> encrypt_str.plain]
    ELSE [ok |-> TRUE, doc |-> EmptyDoc]

\* decrypt_lark_data: base64-decode, AES-256-CBC decrypt with sha256(key),
\* unpad, utf-8 decode, json.loads; any failure is re-raised
decrypt_lark_data(encrypt_str, encrypt_key) ==
    IF encrypt_str.kind = "ct" /\ encrypt_str.key = encrypt_key /\ encrypt_str.json
    THEN [ok |-> TRUE, doc |-> encrypt_str.plain]
    ELSE [ok |-> FALSE, doc |-> EmptyDoc]

IsSpace(c) == c = " "

RECURSIVE LStrip(_)
LStrip(s) == IF s # <<>> /\ IsSpace(Head(s)) THEN LStrip(Tail(s)) ELSE s

RECURSIVE RStrip(_)
RStrip(s) == IF s # <<>> /\ IsSpace(s[Len(s)]) THEN RStrip(SubSeq(s, 1, Len(s) - 1)) ELSE s

\* a text taken as it comes, without .strip()
StripNone(s) == s

\* str.strip()
Strip(s) == RStrip(LStrip(s))

\* what the agent call can do: return a response with a string content, return
\* an object without a content attribute, return a response whose content is
\* None, or raise
AgentOutcomes == {"content", "noattr", "none", "raise"}

\* what feishu_client.im.v1.message.create can do: succeed, answer with a
\* non-success response, or raise
SendOutcomes == {"ok", "fail", "throw"}

\* ------------------------------------------------------------------ state
VARIABLES
    encryptKey,   \* os.getenv("APP_ENCRYPT_KEY")
    req,          \* the requests: position in the handler, locals, response
    agentLog,     \* the calls of agent.run, in order
    sendLog,      \* the calls of feishu_client.im.v1.message.create, in order
    environ,      \* the credentials that are set in os.environ after load_dotenv
    launch,       \* how the module is started: "script" (python main.py) or
                  \* "asgi" (an ASGI server imports main:app)
    server        \* "start", "imported", "validated", "exited", "serving"

proc == <<environ, launch, server>>

vars == <<encryptKey, req, agentLog, sendLog, environ, launch, server>>

\* required_vars of the __main__ block
required_vars == {"APP_ID", "APP_SECRET", "OPENAI_KEY"}

Launches == {"script", "asgi"}

Reqs == 1..MaxReq

NoResp == [kind |-> "pending", val |-> ""]

IdleReq ==
    [pc |-> "idle", endpoint |-> "event", body |-> Plain(EmptyDoc), data |-> EmptyDoc,
     chat_id |-> Unbound, user_text |-> <<>>, response_text |-> "",
     resp |-> NoResp, decrypts |-> 0, exc |-> "none", stages |-> <<>>]

\* the server is up after `python main.py` with every credential set
Init ==
    /\ encryptKey \in EncryptKeys
    /\ req = [r \in Reqs |-> IdleReq]
    /\ agentLog = <<>>
    /\ sendLog = <<>>
    /\ environ = required_vars
    /\ launch = "script"
    /\ server = "serving"

\* the process begins: any of the credentials may be unset
StartInit ==
    /\ encryptKey \in EncryptKeys
    /\ req = [r \in Reqs |-> IdleReq]
    /\ agentLog = <<>>
    /\ sendLog = <<>>
    /\ environ \in SUBSET required_vars
    /\ launch \in Launches
    /\ server = "start"

Idle == UNCHANGED <<encryptKey, req, agentLog, sendLog, environ, launch>>

\* the module body runs: load_dotenv, app = FastAPI(...), feishu_client is built
\* from whatever os.getenv returns, the routes are registered
ImportModule ==
    /\ server = "start"
    /\ server' = "imported"
    /\ Idle

\* the __main__ block: exit(1) when a required variable is unset or empty
Validate ==
    /\ server = "imported"
    /\ launch = "script"
    /\ LET missing == required_vars \ environ
       IN  server' = IF missing # {} THEN "exited" ELSE "validated"
    /\ Idle

\* the __main__ block: uvicorn.run("main:app", ...)
RunServer ==
    /\ server = "validated"
    /\ server' = "serving"
    /\ Idle

\* an ASGI server that imported the module serves its `app`: __name__ is not
\* "__main__", the __main__ block does not run
ServeApp ==
    /\ server = "imported"
    /\ launch = "asgi"
    /\ server' = "serving"
    /\ Idle

\* handlers run on a thread pool: a request can start whatever the others do
LoopFreeThreaded == TRUE

\* the event loop is running no handler between its body and its response
LoopFree == \A r \in Reqs : req[r].pc \in {"idle", "await_body", "done"}

Set(r, fields) == req' = [req EXCEPT ![r] = fields @@ @]

\* the stages a request has gone through, with the one it goes through now;
\* DONE is the return of the endpoint, EXCEPT the except clause of handle_message
Staged(r, stage, fields) ==
    fields @@ [stages |-> req[r].stages \o stage
                          \o (IF fields.pc = "done" THEN <<"DONE">> ELSE <<>>)]

\* a webhook request reaches its handler, which runs up to `await request.body()`
Receive(r, endpoint) ==
    /\ server = "serving"
    /\ req[r].pc = "idle"
    /\ \A q \in Reqs : q < r => req[q].pc # "idle"
    /\ LoopFree
    /\ Set(r, Staged(r, <<"RECEIVED">>, [pc |-> "await_body", endpoint |-> endpoint]))
    /\ UNCHANGED <<encryptKey, agentLog, sendLog, proc>>

\* the handler from the body it awaited to the challenge checks: body.decode,
\* json.loads, and if "encrypt" in data: data = decrypt_lark_data(data["encrypt"], encrypt_key)
DecodeBody(body, key) ==
    LET d == decrypt_lark_data(body.encrypt, key)
        Out(ok, data, decrypts, exc) ==
            [ok |-> ok, data |-> data, decrypts |-> decrypts, exc |-> exc]
    IN  CASE body.kind = "notjson" -> Out(FALSE, EmptyDoc, 0, "json")
          [] body.kind = "scalar" -> Out(FALSE, EmptyDoc, 0, "not iterable")
          [] body.kind = "obj" /\ body.encrypt.kind = "absent" -> Out(TRUE, body.doc, 0, "none")
          [] body.kind = "obj" /\ body.encrypt.kind # "absent" /\ key = "" ->
                Out(FALSE, EmptyDoc, 0, "Encryption key not configured")
          [] OTHER -> IF d.ok THEN Out(TRUE, d.doc, 1, "none")
                      ELSE Out(FALSE, EmptyDoc, 1, "decrypt")

\* a challenge check that knows the v2 shape only
IsChallengeV2Only(data) == data.type = URLVERIFY

\* is the document a URL verification challenge (v1: "challenge" in data;
\* v2: data["type"] == "url_verification")
IsChallenge(data) == data.challenge # NoVal \/ data.type = URLVERIFY

\* the value echoed: data["challenge"], or data.get("challenge", "")
ChallengeOf(data) == IF data.challenge # NoVal THEN data.challenge ELSE ""

\* handle_event after the challenge checks: "call" handle_message(event),
\* "ack" return {"success": True}, "raise" an exception reaches the except clause
EventRoute(data) ==
    IF data.header.kind # "absent" /\ data.event.kind # "absent"
    THEN IF data.header.kind = "null" THEN "raise"
         ELSE IF data.header.event_type = RECEIVE THEN "call" ELSE "ack"
    ELSE IF data.event.kind # "absent"
         THEN IF data.event.kind = "null" THEN "raise"
              ELSE IF data.event.message.kind # "absent" THEN "call" ELSE "ack"
         ELSE "ack"

\* a card endpoint that routes as the event endpoint does
CardRouteAsEvent(data) == EventRoute(data)

\* handle_card after the challenge checks: data.get('action', {}).get('value', 'unknown')
CardRoute(data) == IF data.action = NullVal THEN "raise" ELSE "ack"

\* handle_message up to the agent call: the locals it binds and where it goes
\* next ("agent": create_agent/agent.run, "return": an early return,
\* "except": the except clause)
ExtractMessage(event) ==
    LET m == event.message
        chat == IF m.kind = "absent" \/ m.chat_id = NoVal THEN NoneVal ELSE m.chat_id
        c == m.content
        text == Strip(IF c.kind = "obj" /\ c.hasText THEN c.text ELSE <<>>)
        Go(next, chat_id, user_text) ==
            [next |-> next, chat_id |-> chat_id, user_text |-> user_text]
    IN  CASE event.kind = "null" -> Go("except", Unbound, <<>>)   \* None.get
          [] event.kind # "null" /\ m.kind = "null" -> Go("except", Unbound, <<>>)
          [] OTHER ->
                IF m.kind = "absent" \/ m.message_type # "text"
                THEN Go("return", chat, <<>>)
                ELSE IF c.kind \in {"notjson", "notdict"}
                THEN Go("except", chat, <<>>)
                ELSE IF text = <<>>
                THEN Go("return", chat, text)
                ELSE IF event.sender = NullVal
                THEN Go("except", chat, text)
                ELSE Go("agent", chat, text)

\* a handle_event without its last return statement: the response is null
ContinueNoReturn(next) ==
    CASE next = "return" -> [pc |-> "done", resp |-> [kind |-> "null", val |-> ""]]
      [] next = "raise" -> [pc |-> "done", resp |-> [kind |-> "error", val |-> "raised"]]
      [] OTHER -> [pc |-> next]

\* where the request is after a step of handle_message: when handle_message
\* returns, handle_event returns {"success": True}; an exception that leaves
\* handle_message reaches the except clause of handle_event, which returns
\* {"error": str(e)}
Continue(next) ==
    CASE next = "return" -> [pc |-> "done", resp |-> [kind |-> "success", val |-> ""]]
      [] next = "raise" -> [pc |-> "done", resp |-> [kind |-> "error", val |-> "raised"]]
      [] OTHER -> [pc |-> next]

\* the stages of an endpoint between the body and the agent call: DECRYPT is
\* the call of decrypt_lark_data, CHALLENGE the two challenge checks (made on
\* the document after decryption), WRONG_TYPE the event-type and message-type
\* checks of the event endpoint; there is no duplicate check
EndpointStages(endpoint, x, way) ==
    (IF x.decrypts > 0 THEN <<"DECRYPT">> ELSE <<>>)
        \o (IF x.ok THEN <<"CHALLENGE">> ELSE <<>>)
        \o (IF x.ok /\ ~IsChallenge(x.data) /\ endpoint = "event" /\ way # "raise"
            THEN <<"WRONG_TYPE">> ELSE <<>>)

\* an endpoint from the body it awaited to its return or, through
\* handle_message, to the agent call or to the except clause of handle_message:
\* decode and decrypt, the two challenge checks, the routing, the extraction
Endpoint(endpoint, body, key) ==
    LET x == DecodeBody(body, key)
        way == IF endpoint = "event" THEN EventRoute(x.data) ELSE CardRoute(x.data)
        m == ExtractMessage(x.data.event)
        Out(fields, exc) ==
            fields @@ [body |-> body, data |-> x.data, decrypts |-> x.decrypts, exc |-> exc]
                   @@ [stage |-> EndpointStages(endpoint, x, way)]
        Reply(kind, val) == [pc |-> "done", resp |-> [kind |-> kind, val |-> val]]
    IN  CASE ~x.ok -> Out(Reply("error", x.exc), x.exc)
          [] x.ok /\ IsChallenge(x.data) -> Out(Reply("challenge", ChallengeOf(x.data)), "none")
          [] x.ok /\ ~IsChallenge(x.data) /\ way = "call" ->
                Out(Continue(m.next) @@ [chat_id |-> m.chat_id, user_text |-> m.user_text],
                    IF m.next = "except" THEN "message" ELSE "none")
          [] x.ok /\ ~IsChallenge(x.data) /\ way = "ack" -> Out(Reply("success", ""), "none")
          [] OTHER -> Out(Reply("error", "route"), "route")

\* POST /webhook/event: handle_event resumes with the body
HandleEvent(r, body) ==
    /\ req[r].pc = "await_body"
    /\ req[r].endpoint = "event"
    /\ LoopFree
    /\ LET e == Endpoint("event", body, encryptKey)
       IN  Set(r, Staged(r, e.stage, [f \in DOMAIN e \ {"stage"} |-> e[f]]))
    /\ UNCHANGED <<encryptKey, agentLog, sendLog, proc>>

\* POST /webhook/card: handle_card resumes with the body
HandleCard(r, body) ==
    /\ req[r].pc = "await_body"
    /\ req[r].endpoint = "card"
    /\ LoopFree
    /\ LET e == Endpoint("card", body, encryptKey)
       IN  Set(r, Staged(r, e.stage, [f \in DOMAIN e \ {"stage"} |-> e[f]]))
    /\ UNCHANGED <<encryptKey, agentLog, sendLog, proc>>

\* response.content if hasattr(response, 'content') else str(response)
ReplyText(outcome) == IF outcome = "noattr" THEN "str(response)" ELSE "reply"

\* a handle_message whose try block does not cover the agent call
AfterAgentUncaught(outcome) == IF outcome \in {"content", "noattr"} THEN "send" ELSE "raise"

\* a handle_message that calls the agent again when the call failed
AfterAgentRetry(outcome) == IF outcome \in {"content", "noattr"} THEN "send" ELSE "agent"

\* after agent.run and response_text[:100]: go on to send the reply, or to the
\* except clause (agent.run raised, or slicing None raised)
AfterAgent(outcome) == IF outcome \in {"content", "noattr"} THEN "send" ELSE "except"

InvokeAgent(r, outcome) ==
    /\ req[r].pc = "agent"
    /\ agentLog' = Append(agentLog, [req |-> r, text |-> req[r].user_text])
    /\ Set(r, Staged(r, <<"INVOKE_AGENT">>,
               [response_text |-> IF AfterAgent(outcome) = "send" THEN ReplyText(outcome) ELSE "",
                exc |-> IF AfterAgent(outcome) = "send" THEN "none" ELSE "agent"]
               @@ Continue(AfterAgent(outcome))))
    /\ UNCHANGED <<encryptKey, sendLog, proc>>

\* send_text_message: one call of message.create; it logs and returns whatever
\* the outcome
send_text_message(r, chat_id, text, outcome) ==
    sendLog' = Append(sendLog, [req |-> r, chat_id |-> chat_id, text |-> text,
                                outcome |-> outcome])

\* a sender whose failure is taken for a failure of the reply
AfterSendEscalate(outcome) == IF outcome = "ok" THEN "return" ELSE "except"

\* where handle_message goes after send_text_message(chat_id, response_text)
AfterSend(outcome) == "return"

SendReply(r, outcome) ==
    /\ req[r].pc = "send"
    /\ send_text_message(r, req[r].chat_id, req[r].response_text, outcome)
    /\ Set(r, Staged(r, <<"SEND_REPLY">>, Continue(AfterSend(outcome))))
    /\ UNCHANGED <<encryptKey, agentLog, proc>>

\* an apology addressed to a fixed chat
ApologyTargetFixed(chat_id) == "oc_A"

\* the except clause of handle_message can send only when chat_id is bound:
\* otherwise naming it raises NameError, which the bare except swallows
ApologyTarget(chat_id) == chat_id

SendApology(r, outcome) ==
    /\ req[r].pc = "except"
    /\ IF req[r].chat_id = Unbound
       THEN UNCHANGED sendLog
       ELSE send_text_message(r, ApologyTarget(req[r].chat_id), APOLOGY, outcome)
    /\ Set(r, Staged(r, <<"EXCEPT">>, Continue("return")))
    /\ UNCHANGED <<encryptKey, agentLog, proc>>

Next ==
    \/ \E r \in Reqs, e \in Endpoints : Receive(r, e)
    \/ \E r \in Reqs, b \in EventBodies : HandleEvent(r, b)
    \/ \E r \in Reqs, b \in CardBodies : HandleCard(r, b)
    \/ \E r \in Reqs, o \in AgentOutcomes : InvokeAgent(r, o)
    \/ \E r \in Reqs, o \in SendOutcomes : SendReply(r, o)
    \/ \E r \in Reqs, o \in SendOutcomes : SendApology(r, o)

Spec == Init /\ [][Next]_vars

\* the body a handler awaits arrives and the event loop resumes the handler;
\* agent.run and message.create return or raise
Fairness ==
    \A r \in Reqs :
        /\ WF_vars(\E b \in EventBodies : HandleEvent(r, b))
        /\ WF_vars(\E b \in CardBodies : HandleCard(r, b))
        /\ WF_vars(\E o \in AgentOutcomes : InvokeAgent(r, o))
        /\ WF_vars(\E o \in SendOutcomes : SendReply(r, o))
        /\ WF_vars(\E o \in SendOutcomes : SendApology(r, o))

FairSpec == Spec /\ Fairness

\* the application from the start of its process
StartNext ==
    \/ ImportModule
    \/ Validate
    \/ RunServer
    \/ ServeApp
    \/ Next

StartSpec == StartInit /\ [][StartNext]_vars

\* ------------------------------------------------------------ properties
\* what a request was given, read off its body and the configured key alone
Started(r) == req[r].pc \notin {"idle", "await_body"}
Done(r) == req[r].pc = "done"
Calls(r) == Cardinality({i \in DOMAIN agentLog : agentLog[i].req = r})
Sends(r) == Cardinality({i \in DOMAIN sendLog : sendLog[i].req = r})

\* the body is not JSON, or it is encrypted and the key is not configured, or
\* its ciphertext does not decrypt to JSON text
DecodeError(r) ==
    LET b == req[r].body
    IN  \/ b.kind = "notjson"
        \/ /\ b.kind = "obj"
           /\ b.encrypt.kind # "absent"
           /\ \/ encryptKey = ""
              \/ b.encrypt.kind = "garbage"
              \/ b.encrypt.key # encryptKey
              \/ ~b.encrypt.json

\* the body yields a JSON object: itself, or the decrypted plaintext
HasDocument(r) == Started(r) /\ req[r].body.kind = "obj" /\ ~DecodeError(r)
Document(r) ==
    IF req[r].body.encrypt.kind = "absent" THEN req[r].body.doc ELSE req[r].body.encrypt.plain

CarriesChallenge(r) == HasDocument(r) /\ Document(r).challenge # NoVal
ChallengeShaped(r) ==
    HasDocument(r) /\ (Document(r).challenge # NoVal \/ Document(r).type = URLVERIFY)

\* header and event are JSON objects when present
WellFormed(r) ==
    HasDocument(r) /\ Document(r).header.kind # "null" /\ Document(r).event.kind # "null"

\* the event type of the document: header.event_type (v2), else type (v1)
EventTypeOf(d) ==
    IF d.header.kind = "obj" THEN d.header.event_type
    ELSE IF d.type # NoVal THEN d.type ELSE d.event.type

InboundMessage(r) == Document(r).event.message
InboundChat(r) ==
    IF InboundMessage(r).chat_id = NoVal THEN NoneVal ELSE InboundMessage(r).chat_id

\* a delivery of a message-received event with a usable text message
TextDelivery(r) ==
    /\ req[r].endpoint = "event"
    /\ WellFormed(r)
    /\ ~ChallengeShaped(r)
    /\ Document(r).header.kind = "obj"
    /\ Document(r).header.event_type = RECEIVE
    /\ Document(r).event.sender # NullVal
    /\ InboundMessage(r).kind = "obj"
    /\ InboundMessage(r).message_type = "text"
    /\ InboundMessage(r).content.kind = "obj"
    /\ InboundMessage(r).content.hasText
    /\ Strip(InboundMessage(r).content.text) # <<>>

SameMessage(r1, r2) ==
    /\ r1 # r2
    /\ TextDelivery(r1)
    /\ TextDelivery(r2)
    /\ InboundMessage(r1).message_id = InboundMessage(r2).message_id

\* C1: two deliveries of a message-received event with the same message_id
\* (every run of the model lies within one retention window: no handler reads
\* a clock) cause exactly one agent invocation and exactly one outbound send
\* in total.
C1_OneProcessingPerMessageId ==
    \A r1, r2 \in Reqs :
        SameMessage(r1, r2) /\ Done(r1) /\ Done(r2)
            => Calls(r1) + Calls(r2) = 1 /\ Sends(r1) + Sends(r2) = 1

\* C2: the duplicate check answers false for the first sight of a message id
\* and true for the second sight within the window: of two deliveries of one id,
\* at most one gets as far as the agent.
C2_SecondSightIsSkipped ==
    \A r1, r2 \in Reqs :
        SameMessage(r1, r2) => ~(Calls(r1) > 0 /\ Calls(r2) > 0)

\* C3: on both endpoints a body whose document (the body itself, or the
\* decrypted plaintext) carries a challenge c is answered {"challenge": c}, and
\* the request invokes no agent and sends nothing.
C3_ChallengeEchoed ==
    \A r \in Reqs :
        CarriesChallenge(r)
            => /\ Done(r)
               /\ req[r].resp = [kind |-> "challenge", val |-> Document(r).challenge]
               /\ Calls(r) = 0
               /\ Sends(r) = 0

C3_Witness ==
    \E r1, r2 \in Reqs :
        /\ Done(r1) /\ CarriesChallenge(r1) /\ req[r1].endpoint = "card"
        /\ req[r1].body.encrypt.kind = "ct" /\ Document(r1).type = NoVal
        /\ Done(r2) /\ CarriesChallenge(r2) /\ req[r2].endpoint = "event"
        /\ Document(r2).type = URLVERIFY
        /\ req[r2].resp = [kind |-> "challenge", val |-> "c2"]

\* C4: an event request whose event type is not the message-received type, or
\* whose message_type is not "text", is answered {"success": true} and causes
\* no agent invocation and no send, in the v2 shape and in the v1 shape (an
\* event field and no header field).
C4_OtherEventsIgnored ==
    \A r \in Reqs :
        /\ Done(r)
        /\ req[r].endpoint = "event"
        /\ WellFormed(r)
        /\ ~ChallengeShaped(r)
        /\ Document(r).event.kind = "obj"
        /\ InboundMessage(r).kind = "obj"
        /\ \/ EventTypeOf(Document(r)) # RECEIVE
           \/ InboundMessage(r).message_type # "text"
        => req[r].resp.kind = "success" /\ Calls(r) = 0 /\ Sends(r) = 0

\* C5: when the agent invocation fails, the request sends exactly one message,
\* the fixed apology, to the chat_id of the inbound message, and handle_event
\* still returns its acknowledgment.
C5_AgentFailureApology ==
    \A r \in Reqs :
        Done(r) /\ req[r].exc = "agent"
            => /\ Calls(r) = 1
               /\ Sends(r) = 1
               /\ \A i \in DOMAIN sendLog :
                      sendLog[i].req = r
                          => sendLog[i].text = APOLOGY /\ sendLog[i].chat_id = InboundChat(r)
               /\ req[r].resp.kind = "success"

C5_Witness ==
    \E r \in Reqs :
        /\ Done(r) /\ req[r].exc = "agent" /\ Calls(r) = 1
        /\ InboundChat(r) = "oc_B"
        /\ \E i \in DOMAIN sendLog :
               sendLog[i] = [req |-> r, chat_id |-> "oc_B", text |-> APOLOGY, outcome |-> "ok"]

\* C6: an exception raised while an event request is handled ends either in an
\* apology sent to the chat (when chat_id was already bound) or in an
\* {"error": ...} response (when it was not).
C6_ExceptionApologyOrError ==
    \A r \in Reqs :
        Done(r) /\ req[r].endpoint = "event" /\ req[r].exc # "none"
            => IF req[r].chat_id # Unbound
               THEN \E i \in DOMAIN sendLog :
                        /\ sendLog[i].req = r
                        /\ sendLog[i].text = APOLOGY
                        /\ sendLog[i].chat_id = req[r].chat_id
               ELSE req[r].resp.kind = "error"

\* C7: on both endpoints a decode/decrypt error is answered {"error": ...};
\* the request invokes no agent, sends nothing, and decrypts at most once.
C7_DecodeErrorAnswered ==
    \A r \in Reqs :
        Started(r) /\ DecodeError(r)
            => /\ Done(r)
               /\ req[r].resp.kind = "error"
               /\ Calls(r) = 0
               /\ Sends(r) = 0
               /\ req[r].decrypts <= 1

C7_Witness ==
    \E r1, r2 \in Reqs :
        /\ Done(r1) /\ req[r1].endpoint = "card" /\ DecodeError(r1)
        /\ req[r1].body.encrypt.kind = "garbage" /\ req[r1].decrypts = 1
        /\ Done(r2) /\ req[r2].endpoint = "event" /\ DecodeError(r2)
        /\ req[r2].body.encrypt.kind = "ct" /\ req[r2].body.encrypt.key # encryptKey
        /\ req[r2].resp.kind = "error"

C10_FailedSendSwallowed ==
    \A i \in DOMAIN sendLog :
        sendLog[i].outcome # "ok"
            => /\ Sends(sendLog[i].req) = 1
               /\ Done(sendLog[i].req)
               /\ req[sendLog[i].req].resp.kind = "success"

C10_Witness ==
    \E i, j \in DOMAIN sendLog :
        /\ sendLog[i].outcome = "throw" /\ sendLog[i].text = "reply"
        /\ sendLog[j].outcome = "fail" /\ sendLog[j].text # APOLOGY
        /\ sendLog[i].req # sendLog[j].req
        /\ Done(sendLog[i].req) /\ Done(sendLog[j].req)

\* the order of the stages of one event request
StageOrder ==
    <<"RECEIVED", "DECRYPT", "CHALLENGE", "DEDUP", "WRONG_TYPE", "INVOKE_AGENT",
      "SEND_REPLY", "DONE">>
IsStage(x) == \E i \in DOMAIN StageOrder : StageOrder[i] = x
StagePos(x) == CHOOSE i \in DOMAIN StageOrder : StageOrder[i] = x
\* the position of stage x in the trace of request r, 0 when it did not occur
Occurs(r, x) ==
    IF \E i \in DOMAIN req[r].stages : req[r].stages[i] = x
    THEN CHOOSE i \in DOMAIN req[r].stages : req[r].stages[i] = x
    ELSE 0

\* C11: the stages of an event request occur in the order RECEIVED, DECRYPT,
\* CHALLENGE, DEDUP, WRONG_TYPE, INVOKE_AGENT, SEND_REPLY, DONE; the agent is
\* invoked only after the challenge, duplicate and type checks were made, and a
\* reply is sent only after the agent call of the same request.
C11_StageOrder ==
    \A r \in Reqs :
        req[r].endpoint = "event"
            => /\ \A i, j \in DOMAIN req[r].stages :
                      i < j /\ IsStage(req[r].stages[i]) /\ IsStage(req[r].stages[j])
                          => StagePos(req[r].stages[i]) < StagePos(req[r].stages[j])
               /\ Occurs(r, "INVOKE_AGENT") > 0
                      => /\ Occurs(r, "CHALLENGE") > 0
                         /\ Occurs(r, "DEDUP") > 0
                         /\ Occurs(r, "WRONG_TYPE") > 0
               /\ Occurs(r, "SEND_REPLY") > 0
                      => Occurs(r, "INVOKE_AGENT") > 0 /\ Calls(r) > 0

ResponseShapes == {"challenge", "success", "error"}

\* C12: every event request that was received is eventually answered, with
\* one of the three shapes {"challenge": ...}, {"success": true}, {"error": ...};
\* it has no response before and its response never changes afterwards.
C12_OneResponse ==
    /\ \A r \in Reqs :
           (req[r].pc = "await_body" /\ req[r].endpoint = "event") ~> Done(r)
    /\ [](\A r \in Reqs :
              req[r].endpoint = "event"
                  => IF Done(r) THEN req[r].resp.kind \in ResponseShapes
                     ELSE req[r].resp = NoResp)
    /\ [][\A r \in Reqs : Done(r) => req'[r] = req[r]]_vars

C12_Witness ==
    \E r1, r2 \in Reqs :
        /\ r1 # r2
        /\ req[r1].endpoint = "event" /\ Done(r1) /\ req[r1].resp.kind = "success"
        /\ Calls(r1) = 1 /\ Sends(r1) = 1
        /\ req[r2].endpoint = "event" /\ Done(r2) /\ req[r2].resp.kind = "error"

\* C13: however the application is started, the server never accepts webhook
\* requests while APP_ID, APP_SECRET or the LLM API key is unset.
C13_NoServingWithoutCredentials ==
    (server = "serving" \/ \E r \in Reqs : Started(r))
        => {"APP_ID", "APP_SECRET", "OPENAI_KEY"} \subseteq environ

\* C15: an event request causes at most one agent invocation and at most one
\* outbound send, whatever the agent and the send do: the agent is never
\* invoked again and a reply is never followed by an apology.
C15_NoRetry ==
    \A r \in Reqs :
        req[r].endpoint = "event" => Calls(r) <= 1 /\ Sends(r) <= 1

C15_Witness ==
    \E r \in Reqs :
        /\ req[r].endpoint = "event" /\ Done(r) /\ Calls(r) = 1
        /\ \E i \in DOMAIN sendLog :
               sendLog[i].req = r /\ sendLog[i].text = APOLOGY /\ sendLog[i].outcome = "throw"

\* between its parsed body and its response
Running(r) == req[r].pc \in {"agent", "send", "except"}

\* C16: a request can be suspended only while it reads its body: at most one
\* request is between its parsed body and its response; while one is, every
\* step is a step of that request; processing of a request begins when its
\* body is parsed, which happens only when every request that began before it
\* has been answered, and an answered request sends and
\* invokes nothing more, so that calls of different requests do not interleave
\* and replies are sent in the order in which processing began.
C16_RunToCompletion ==
    /\ [](\A r1, r2 \in Reqs : Running(r1) /\ Running(r2) => r1 = r2)
    /\ [][\A r \in Reqs :
              /\ Running(r) => \A q \in Reqs \ {r} : req'[q] = req[q]
              /\ Running(r) /\ agentLog' # agentLog
                     => agentLog' = Append(agentLog, agentLog'[Len(agentLog')])
                        /\ agentLog'[Len(agentLog')].req = r
              /\ Running(r) /\ sendLog' # sendLog
                     => sendLog' = Append(sendLog, sendLog'[Len(sendLog')])
                        /\ sendLog'[Len(sendLog')].req = r
              /\ req[r].pc = "await_body" /\ req'[r].pc # "await_body"
                     => \A q \in Reqs \ {r} : Started(q) => Done(q)
              /\ Done(r) => Calls(r)' = Calls(r) /\ Sends(r)' = Sends(r)]_vars

C16_Witness ==
    \E r1, r2 \in Reqs :
        /\ req[r1].endpoint = "event" /\ req[r1].pc = "send"
        /\ req[r2].endpoint = "event" /\ req[r2].pc = "await_body"
        /\ r2 < r1

\* every character of the text is whitespace (the empty text included)
Blank(text) == \A i \in DOMAIN text : text[i] = " "

\* a message-received text message whose content has no text field or a blank text
BlankDelivery(r) ==
    /\ req[r].endpoint = "event"
    /\ WellFormed(r)
    /\ ~ChallengeShaped(r)
    /\ Document(r).header.kind = "obj"
    /\ Document(r).header.event_type = RECEIVE
    /\ Document(r).event.sender # NullVal
    /\ InboundMessage(r).kind = "obj"
    /\ InboundMessage(r).message_type = "text"
    /\ InboundMessage(r).content.kind = "obj"
    /\ (~InboundMessage(r).content.hasText \/ Blank(InboundMessage(r).content.text))

\* C17: a text message without a text field, or with an empty or whitespace-only
\* text, causes no agent invocation and no send, and is answered {"success": true}.
C17_BlankTextIgnored ==
    \A r \in Reqs :
        BlankDelivery(r)
            => /\ Done(r)
               /\ Calls(r) = 0
               /\ Sends(r) = 0
               /\ req[r].resp.kind = "success"

C17_Witness ==
    \E r1, r2 \in Reqs :
        /\ BlankDelivery(r1) /\ InboundMessage(r1).content.hasText
        /\ Len(InboundMessage(r1).content.text) > 0
        /\ BlankDelivery(r2) /\ ~InboundMessage(r2).content.hasText

====
